---- MODULE Spec2Model ----
(***************************************************************************)
(* Model of the pairwise sketch join of RabbitMash                         *)
(* (src/src/mash/CommandPairwise.cpp): round partitioning, the inverted    *)
(* hash index, candidate search, the bounded-merge estimator and the       *)
(* orchestration of the worker pool in CommandPairwise::run.               *)
(*                                                                         *)
(* Real numbers are represented by integers:                               *)
(*   - a distance is held in millionths (Micro = 1.0);                     *)
(*   - a p-value is the exact fraction num/den of the binomial tail;       *)
(*   - maxPValue is held in hundredths (PScale = 1.0).                     *)
(***************************************************************************)
EXTENDS Integers, Sequences, FiniteSets, TLC

(*************************** bounds of the model ***************************)
MaxRefs == 6          \* references in a collection of a run
MaxVaried == 2        \* up to this size, every combination of hash lists
MaxThreads == 2       \* worker threads of the pool
MaxHash == 5          \* hash values 1..MaxHash in the estimator's inputs
MaxLen == 4           \* hashes per list in the estimator's inputs
MaxSketchSize == 5    \* sketch capacity in the estimator's inputs
MaxCalls == 2   \* calls of FastaChunk::print on one chunk

(**************************** program constants ****************************)
hashTableSize == 33554432      \* 1 << 25
kmerDefault == 9               \* default of option "kmer"
sketchSizeDefault == 400       \* default of option "sketchSize"

Micro == 1000000
PScale == 100

(******************************* helpers ***********************************)
RECURSIVE Gcd(_, _)
Gcd(a, b) == IF b = 0 THEN a ELSE Gcd(b, a % b)

RECURSIVE Pow(_, _)
Pow(b, n) == IF n = 0 THEN 1 ELSE b * Pow(b, n - 1)

RECURSIVE Binomial(_, _)
Binomial(n, k) ==
    IF k = 0 \/ k = n THEN 1 ELSE Binomial(n - 1, k - 1) + Binomial(n - 1, k)

Range(s) == {s[x] : x \in DOMAIN s}

IsAscending(s) == \A x \in 1..(Len(s) - 1) : s[x] < s[x + 1]

\* the elements of a set of numbers as an ascending sequence
\* (iteration order of std::set<uint64_t>)
RECURSIVE SetToSeq(_)
SetToSeq(S) ==
    IF S = {} THEN <<>>
    ELSE LET m == CHOOSE x \in S : \A y \in S : x <= y
         IN  <<m>> \o SetToSeq(S \ {m})

(***************************************************************************)
(* hashLessThan(a, b, use64): the order on hash values.                    *)
(***************************************************************************)
hashLessThan(a, b) == a < b

(***************************************************************************)
(* pValue(x, lengthRef, lengthQuery, kmerSpace, sketchSize) of             *)
(* CommandDistance: P(X >= x) for X ~ Binomial(sketchSize, r),             *)
(* r = pX*pY / (pX + pY - pX*pY), pX = 1/(1 + kmerSpace/lengthRef).        *)
(* With integer arguments r = Lr*Lq / (Lr*Lq + kmerSpace*(Lr + Lq)).       *)
(***************************************************************************)
RECURSIVE BinomialTail(_, _, _, _)
BinomialTail(i, a, b, n) ==
    IF i > n THEN 0
    ELSE Binomial(n, i) * Pow(a, i) * Pow(b - a, n - i)
         + BinomialTail(i + 1, a, b, n)

pValue(x, lengthRef, lengthQuery, kmerSpace, sketchSize) ==
    IF x = 0 THEN [num |-> 1, den |-> 1]
    ELSE LET rn == lengthRef * lengthQuery
             rd == lengthRef * lengthQuery
                   + kmerSpace * (lengthRef + lengthQuery)
             g  == Gcd(rn, rd)
             a  == rn \div g
             b  == rd \div g
         IN  [num |-> BinomialTail(x, a, b, sketchSize),
              den |-> Pow(b, sketchSize)]

\* pValue <= maxPValue, maxPValue in hundredths
\* mutant: the p-value is not compared at all ("return true")
PValueLeqUnchecked(p, maxPValue) == p.den > 0

PValueLeq(p, maxPValue) == p.num * PScale <= maxPValue * p.den

(***************************************************************************)
(* -ln(2j/(1+j)) in millionths for j = common/denom, 1 <= common < denom.  *)
(* NegLnMicro[denom][common] = floor(10^6 * -ln(2*common/(denom+common))). *)
(***************************************************************************)
NegLnMicro ==
    << <<0>>,
       <<405465, 0>>,
       <<693147, 223143, 0>>,
       <<916290, 405465, 154150, 0>>,
       <<1098612, 559615, 287682, 117783, 0>>,
       <<1252762, 693147, 405465, 223143, 95310, 0>>,
       <<1386294, 810930, 510825, 318453, 182321, 80042, 0>>,
       <<1504077, 916290, 606135, 405465, 262364, 154150, 68992, 0>>,
       <<1609437, 1011600, 693147, 485507, 336472, 223143, 133531, 60624, 0>>,
       <<1704748, 1098612, 773189, 559615, 405465, 287682, 194156, 117783, 54067, 0>>,
       <<1791759, 1178654, 847297, 628608, 470003, 348306, 251314, 171850, 105360, 48790, 0>>,
       <<1871802, 1252762, 916290, 693147, 530628, 405465, 305381, 223143, 154150, 95310, 44451, 0>> >>

logDistance(common, denom, kmerSize) == NegLnMicro[denom][common] \div kmerSize

(***************************************************************************)
(* The bounded merge of compareSketches (the while loop).                  *)
(***************************************************************************)
\* mutant: the merge is not bounded by sketchSize
whileConditionUnbounded(denom, sketchSize, i, sizeRef, j, sizeQry) ==
    i < sizeRef /\ j < sizeQry

\* "while ( denom < sketchSize && i < ...size() && j < ...size() )"
whileCondition(denom, sketchSize, i, sizeRef, j, sizeQry) ==
    denom < sketchSize /\ i < sizeRef /\ j < sizeQry

\* mutant: equal hashes advance both cursors without counting a common hash
mergeStepNoCommon(hashRef, hashQry, m) ==
    IF hashLessThan(hashRef, hashQry)
    THEN [m EXCEPT !.i = @ + 1, !.denom = @ + 1]
    ELSE IF hashLessThan(hashQry, hashRef)
    THEN [m EXCEPT !.j = @ + 1, !.denom = @ + 1]
    ELSE [m EXCEPT !.i = @ + 1, !.j = @ + 1, !.denom = @ + 1]

\* the body of the while loop: one comparison of the two current hashes
mergeStep(hashRef, hashQry, m) ==
    IF hashLessThan(hashRef, hashQry)
    THEN [m EXCEPT !.i = @ + 1, !.denom = @ + 1]
    ELSE IF hashLessThan(hashQry, hashRef)
    THEN [m EXCEPT !.j = @ + 1, !.denom = @ + 1]
    ELSE [m EXCEPT !.i = @ + 1, !.j = @ + 1, !.common = @ + 1, !.denom = @ + 1]

RECURSIVE mergeLoop(_, _, _, _, _, _, _)
mergeLoop(hashesSortedRef, hashesSortedQry, sketchSize, i, j, common, denom) ==
    IF whileCondition(denom, sketchSize, i, Len(hashesSortedRef),
                      j, Len(hashesSortedQry))
    THEN LET m == mergeStep(hashesSortedRef[i + 1], hashesSortedQry[j + 1],
                            [i |-> i, j |-> j, common |-> common,
                             denom |-> denom])
         IN  mergeLoop(hashesSortedRef, hashesSortedQry, sketchSize,
                       m.i, m.j, m.common, m.denom)
    ELSE [i |-> i, j |-> j, common |-> common, denom |-> denom]

\* mutant: the completed union is not clamped
clampDenomNone(denom, sketchSize) == denom

\* "complete the union operation if possible", with the clamp to sketchSize
clampDenom(denom, sketchSize) == IF denom > sketchSize THEN sketchSize ELSE denom

\* mutant: only what is left of the reference's list is added to the union
completeUnionRefOnly(m, lenRef, lenQry, sketchSize) ==
    IF m.denom < sketchSize
    THEN LET d1 == IF m.i < lenRef THEN m.denom + (lenRef - m.i) ELSE m.denom
         IN  clampDenom(d1, sketchSize)
    ELSE m.denom

completeUnion(m, lenRef, lenQry, sketchSize) ==
    IF m.denom < sketchSize
    THEN LET d1 == IF m.i < lenRef THEN m.denom + (lenRef - m.i) ELSE m.denom
             d2 == IF m.j < lenQry THEN d1 + (lenQry - m.j) ELSE d1
         IN  clampDenom(d2, sketchSize)
    ELSE m.denom

\* which of the three distance branches is taken
distanceBranch(common, denom) ==
    IF common = denom THEN "zero"
    ELSE IF common = 0 THEN "one"
    ELSE "log"

distanceOf(common, denom, kmerSize) ==
    IF common = denom THEN 0
    ELSE IF common = 0 THEN Micro
    ELSE logDistance(common, denom, kmerSize)

\* mutant: a distance of exactly 1 is not excluded
distanceRejectedAboveOnly(distance, maxDistance) == distance > maxDistance

\* "distance > maxDistance || distance == 1"
distanceRejected(distance, maxDistance) ==
    distance > maxDistance \/ distance = Micro

(***************************************************************************)
(* compareSketches: the value returned (accepted) together with the fields *)
(* it computes.  numer/denom/distance/pValue are written to the output     *)
(* only when the distance test passes.                                     *)
(***************************************************************************)
compareSketches(refRef, refQry, sketchSize, kmerSize, kmerSpace, maxDistance, maxPValue) ==
    LET m        == mergeLoop(refRef.hashesSorted, refQry.hashesSorted,
                              sketchSize, 0, 0, 0, 0)
        common   == m.common
        denom    == completeUnion(m, Len(refRef.hashesSorted),
                                  Len(refQry.hashesSorted), sketchSize)
        distance == distanceOf(common, denom, kmerSize)
        p        == pValue(common, refRef.length, refQry.length, kmerSpace, denom)
    IN  [numer    |-> common,
         denom    |-> denom,
         branch   |-> distanceBranch(common, denom),
         distance |-> distance,
         pValue   |-> p,
         accepted |-> ~distanceRejected(distance, maxDistance)
                      /\ PValueLeq(p, maxPValue)]

(***************************************************************************)
(* HashTable: std::unordered_map<uint64_t, std::list<uint64_t>>.           *)
(* map holds the keys written by push_back; slots is the number of keys    *)
(* 0..slots-1 created (empty unless written) by the operator[] reads of    *)
(* the statistics pass of fillHashTable.                                   *)
(***************************************************************************)
EmptyMap == [x \in {} |-> <<>>]

emptyHashTable == [map |-> EmptyMap, slots |-> 0]

\* hashTable.count(row)
hashTableCount(t, row) == row \in DOMAIN t.map \/ row < t.slots

\* mutant: only the first index of the list of the row is read
hashTableAtFront(t, row) ==
    IF row \in DOMAIN t.map THEN SubSeq(t.map[row], 1, 1) ELSE <<>>

\* hashTable.at(row), for a row that is present
hashTableAt(t, row) == IF row \in DOMAIN t.map THEN t.map[row] ELSE <<>>

\* mutant: the index goes to the front of the list of the hash
pushFront(map, h, i) ==
    IF h \in DOMAIN map
    THEN [map EXCEPT ![h] = <<i>> \o @]
    ELSE [x \in DOMAIN map \cup {h} |-> IF x = h THEN <<i>> ELSE map[x]]

\* hashTable[h].push_back(i)
pushBack(map, h, i) ==
    IF h \in DOMAIN map
    THEN [map EXCEPT ![h] = Append(@, i)]
    ELSE [x \in DOMAIN map \cup {h} |-> IF x = h THEN <<i>> ELSE map[x]]

\* inner loop of fillHashTable: the hashes of reference i
RECURSIVE fillHashes(_, _, _, _)
fillHashes(map, hashesSorted, j, i) ==
    IF j < Len(hashesSorted)
    THEN fillHashes(pushBack(map, hashesSorted[j + 1], i), hashesSorted, j + 1, i)
    ELSE map

\* outer loop of fillHashTable: references i .. end-1
RECURSIVE fillRefs(_, _, _, _)
fillRefs(map, sk, i, end) ==
    IF i < end
    THEN fillRefs(fillHashes(map, sk.refs[i].hashesSorted, 0, i), sk, i + 1, end)
    ELSE map

fillHashTable(sk, tableSize, start, end) ==
    [map |-> fillRefs(EmptyMap, sk, start, end), slots |-> tableSize]

(***************************************************************************)
(* search: candidate generation (targets) and scoring of one query index.  *)
(***************************************************************************)
\* mutant: every other index is a target ("index != input->index")
isTargetNotSelf(index, queryIndex) == index /= queryIndex

\* "if ( index < input->index )"
isTarget(index, queryIndex) == index < queryIndex

searchTargets(sk, queryIndex, table) ==
    LET rows == {h \in Range(sk.refs[queryIndex].hashesSorted) :
                     hashTableCount(table, h)}
    IN  {index \in UNION {Range(hashTableAt(table, row)) : row \in rows} :
             isTarget(index, queryIndex)}

scorePair(sk, queryIndex, target, maxDistance, maxPValue) ==
    compareSketches(sk.refs[queryIndex], sk.refs[target],
                    sk.minHashesPerWindow, sk.kmerSize, sk.kmerSpace,
                    maxDistance, maxPValue)

search(sk, queryIndex, table, maxDistance, maxPValue) ==
    LET targets == SetToSeq(searchTargets(sk, queryIndex, table))
        kept    == SelectSeq(targets,
                       LAMBDA t : scorePair(sk, queryIndex, t,
                                            maxDistance, maxPValue).accepted)
    IN  [index |-> queryIndex,
         pairs |-> [k \in 1..Len(kept) |->
                      LET c == scorePair(sk, queryIndex, kept[k],
                                         maxDistance, maxPValue)
                      IN  [index    |-> kept[k],
                           numer    |-> c.numer,
                           denom    |-> c.denom,
                           distance |-> c.distance,
                           pValue   |-> c.pValue]]]

(***************************************************************************)
(* Round partitioning of CommandPairwise::run.                             *)
(***************************************************************************)
roundCount(referenceCount, minHashesPerWindow) ==
    LET r == ((referenceCount * minHashesPerWindow) \div hashTableSize) \div 2
    IN  IF r = 0 THEN 1 ELSE r

roundSizeOf(referenceCount, nRounds) == referenceCount \div nRounds

roundStart(round, size) == round * size

roundEnd(round, size, referenceCount) ==
    LET e == (round + 1) * size
    IN  IF e > referenceCount THEN referenceCount ELSE e

(***************************************************************************)
(* State.                                                                  *)
(***************************************************************************)
VARIABLES
    sketch,        \* the Sketch loaded by run: refs, minHashesPerWindow, kmerSize, kmerSpace
    threads,       \* option "threads"
    distanceMax,   \* option "distance"
    pValueMax,     \* option "pvalue"
    pc,            \* position of the orchestrator in run()
    rounds,        \* run(): rounds
    roundSize,     \* run(): roundSize
    i,             \* run(): round counter of the for loop
    start,         \* run(): start of the current round
    end,           \* run(): end of the current round
    hashTable,     \* run(): the HashTable of the current round
    j,             \* run(): query index of the submission loop
    inputCurrent,  \* ThreadPool: the input waiting for a thread
    outputQueue,   \* ThreadPool: output nodes in submission order
    thread,        \* ThreadPool: per thread, the input it is working on
    written,       \* history: the outputs passed to writeOutput, in order
    scored,        \* history: the pairs <<query, reference>> given to compareSketches
    ranges,        \* history: the [start, end) of the rounds begun so far
    cmp,           \* the estimator on its own: arguments and result
    options,       \* run(): the options and what they say of the input file
    stdout,        \* the lines written to cout so far
    status,        \* the value run() returned, -1 while it has not returned
    searched,      \* history: per call of search, its query, round and the targets scored
    popped,        \* run(): the node popOutputWhenAvailable returned, not yet written
    chunk          \* a FastaChunk on its own

vars == <<sketch, threads, distanceMax, pValueMax, pc, rounds, roundSize, i,
          start, end, hashTable, j, inputCurrent, outputQueue, thread,
          written, scored, ranges, cmp, options, stdout, status, searched,
          popped, chunk>>

None == [none |-> TRUE]

(***************************************************************************)
(* Inputs of a run.                                                        *)
(***************************************************************************)
RunHashLists == << <<1, 2>>, <<2, 3>>, <<3>> >>
RunLengths == {2}
RunKmerSpaces == {3}
RunSketchSizes == {2, 25165824, 33554432, 134217728}
RunFileSketchSizes == {33554432}      \* the capacities of sketch files
RunDistances == {50000, Micro}
RunPValues == {10, PScale}

\* the options of a run, the number of its arguments and what the input file
\* is: sketchSize is the argument of "-s", the default when it is not given
runOptions(table, isSketch, kmerActive, sketchSizeActive, sketchSize, reads, help, nargs) ==
    [table |-> table, isSketch |-> isSketch, kmerActive |-> kmerActive,
     sketchSizeActive |-> sketchSizeActive, sketchSize |-> sketchSize,
     reads |-> reads, help |-> help, arguments |-> nargs]

\* FASTA input listed in columns, without "-s" and with each "-s"; a table
\* of a sketch file with a "-s" that is not checked; the combinations run()
\* refuses; a sketch file with the "-s" of its own capacity for reads; the
\* runs that only write the help text
RunOptions ==
    {runOptions(FALSE, FALSE, FALSE, FALSE, sketchSizeDefault, FALSE, FALSE, 1),
     runOptions(TRUE, TRUE, FALSE, TRUE, sketchSizeDefault, FALSE, FALSE, 1),
     runOptions(TRUE, TRUE, TRUE, FALSE, sketchSizeDefault, FALSE, FALSE, 1),
     runOptions(FALSE, TRUE, TRUE, TRUE, 2, TRUE, FALSE, 1),
     runOptions(TRUE, TRUE, FALSE, TRUE, 2, TRUE, FALSE, 1),
     runOptions(FALSE, TRUE, FALSE, TRUE, 33554432, TRUE, FALSE, 1),
     runOptions(TRUE, TRUE, TRUE, FALSE, sketchSizeDefault, FALSE, TRUE, 1),
     runOptions(FALSE, FALSE, FALSE, FALSE, sketchSizeDefault, FALSE, FALSE, 0),
     runOptions(TRUE, FALSE, FALSE, FALSE, sketchSizeDefault, FALSE, FALSE, 2)}
    \cup {runOptions(FALSE, FALSE, FALSE, TRUE, S, FALSE, FALSE, 1) :
             S \in RunSketchSizes}

\* the capacity of the sketch run() works on: the one of the sketch file, or
\* for FASTA input the one of the parameters the sketch is made with
loadedSketchSizes(o) ==
    IF o.isSketch THEN RunFileSketchSizes ELSE {o.sketchSize}

RunRefs == [hashesSorted : Range(RunHashLists), length : RunLengths]

\* the collections of R references: every combination of the hash lists up
\* to MaxVaried references, the hash lists in turn above
RunCollections(R) ==
    IF R <= MaxVaried
    THEN [0..(R - 1) -> RunRefs]
    ELSE {[x \in 0..(R - 1) |->
              [hashesSorted |-> RunHashLists[(x % Len(RunHashLists)) + 1],
               length |-> l]] :
          l \in RunLengths}

referenceCount(sk) == Cardinality(DOMAIN sk.refs)

Init ==
    /\ options \in RunOptions
    /\ \E R \in 1..MaxRefs :
         \E refs \in RunCollections(R) :
           \E S \in loadedSketchSizes(options) :
             \E K \in RunKmerSpaces :
               sketch = [refs |-> refs, minHashesPerWindow |-> S,
                         kmerSize |-> kmerDefault, kmerSpace |-> K]
    /\ threads \in 1..MaxThreads
    /\ distanceMax \in RunDistances
    /\ pValueMax \in RunPValues
    /\ stdout = <<>>
    /\ status = -1
    /\ searched = {}
    /\ popped = None
    /\ chunk = None
    /\ pc = "begin"
    /\ rounds = 0
    /\ roundSize = 0
    /\ i = 0
    /\ start = 0
    /\ end = 0
    /\ hashTable = emptyHashTable
    /\ j = 0
    /\ inputCurrent = None
    /\ outputQueue = <<>>
    /\ thread = [t \in 1..threads |-> None]
    /\ written = <<>>
    /\ scored = {}
    /\ ranges = <<>>
    /\ cmp = None

(***************************************************************************)
(* ThreadPool<PairwiseInput, PairwiseOutput>.                              *)
(***************************************************************************)
\* outputAvailable(): the head of the output queue is ready
outputAvailable == outputQueue /= <<>> /\ outputQueue[1].ready

\* running(): the output queue is not empty
running == outputQueue /= <<>>

\* popOutputWhenAvailable(): waits until the head of the output queue is
\* ready, removes it and returns its output to run()
popOutputWhenAvailable ==
    /\ outputQueue /= <<>>
    /\ outputQueue[1].ready
    /\ popped' = [node |-> outputQueue[1].node, output |-> outputQueue[1].output]
    /\ outputQueue' = Tail(outputQueue)

\* thread(): a waiting thread takes the current input
ThreadTake(t) ==
    /\ pc /= "crashed"
    /\ thread[t] = None
    /\ inputCurrent /= None
    /\ thread' = [thread EXCEPT ![t] = inputCurrent]
    /\ inputCurrent' = None
    /\ UNCHANGED <<sketch, threads, distanceMax, pValueMax, pc, rounds,
                   roundSize, i, start, end, hashTable, j, outputQueue,
                   written, scored, ranges, cmp, options, stdout, status, searched,
                   popped, chunk>>

\* thread(): function(input) has returned; the node of the input becomes ready
ThreadFinish(t) ==
    /\ pc /= "crashed"
    /\ thread[t] /= None
    /\ LET in  == thread[t]
           out == search(sketch, in.index, hashTable, in.maxDistance, in.maxPValue)
       IN  /\ outputQueue' =
                [n \in DOMAIN outputQueue |->
                   IF outputQueue[n].node = in.node
                   THEN [outputQueue[n] EXCEPT !.ready = TRUE, !.output = out]
                   ELSE outputQueue[n]]
           /\ scored' = scored \cup
                {<<in.index, r>> : r \in searchTargets(sketch, in.index, hashTable)}
           /\ searched' = searched \cup
                {[index   |-> in.index,
                  round   |-> in.round,
                  targets |-> SetToSeq(searchTargets(sketch, in.index, hashTable))]}
    /\ thread' = [thread EXCEPT ![t] = None]
    /\ UNCHANGED <<sketch, threads, distanceMax, pValueMax, pc, rounds,
                   roundSize, i, start, end, hashTable, j, inputCurrent,
                   written, ranges, cmp, options, stdout, status,
                   popped, chunk>>

(***************************************************************************)
(* What is written to cout: a sequence of lines, each a sequence of tokens *)
(* [t, a, b]; a tab is a token of its own, "endl" ends the line.           *)
(***************************************************************************)
Tab == [t |-> "tab", a |-> 0, b |-> 0]

queryToken == [t |-> "#query", a |-> 0, b |-> 0]

nameToken(index) == [t |-> "name", a |-> index, b |-> 0]

distanceToken(distance) == [t |-> "distance", a |-> distance, b |-> 0]

pValueToken(p) == [t |-> "pValue", a |-> p.num, b |-> p.den]

countsToken(numer, denom) == [t |-> "counts", a |-> numer, b |-> denom]

tabs(n) == [k \in 1..n |-> Tab]

\* the header of the table: "#query", then a tab and the name per reference
RECURSIVE headerNames(_, _)
headerNames(k, count) ==
    IF k >= count THEN <<>>
    ELSE <<Tab, nameToken(k)>> \o headerNames(k + 1, count)

tableHeader(sk) == <<queryToken>> \o headerNames(0, referenceCount(sk))

\* the column counter of writeOutput after "while ( j < pair->index ) j++":
\* writing the distance does not move it
columnAfter(col, pairIndex) == IF col < pairIndex THEN pairIndex ELSE col

\* writeOutput, table: per pair, a tab per column up to the pair's, then a
\* tab and the distance
RECURSIVE tablePairs(_, _, _)
tablePairs(pairs, k, col) ==
    IF k > Len(pairs) THEN <<>>
    ELSE tabs(columnAfter(col, pairs[k].index) - col)
         \o <<Tab, distanceToken(pairs[k].distance)>>
         \o tablePairs(pairs, k + 1, columnAfter(col, pairs[k].index))

\* writeOutput, no table: a line per pair
listLine(index, pair) ==
    <<nameToken(index), Tab, nameToken(pair.index), Tab,
      distanceToken(pair.distance), Tab, pValueToken(pair.pValue), Tab,
      countsToken(pair.numer, pair.denom)>>

\* writeOutput(output, table): the lines it adds to cout
writeOutput(output, table) ==
    IF table
    THEN << <<nameToken(output.index), Tab>> \o tablePairs(output.pairs, 1, 0) >>
    ELSE [k \in 1..Len(output.pairs) |-> listLine(output.index, output.pairs[k])]

(***************************************************************************)
(* CommandPairwise::run, up to the table header.                           *)
(***************************************************************************)
\* mutant: "-k" is refused for FASTA input instead of a sketch file
kmerOptionRefusedForFasta(o) == ~o.isSketch /\ o.kmerActive

\* "-k" given with a sketch file
kmerOptionRefused(o) == o.isSketch /\ o.kmerActive

\* "-s" given with a sketch file of another capacity, for reads
sketchSizeRefused(o, sk) ==
    /\ o.isSketch
    /\ o.sketchSizeActive
    /\ o.reads
    /\ o.sketchSize /= sk.minHashesPerWindow

\* what Command::print() writes: the help text, one line here
helpText == <<[t |-> "help", a |-> 0, b |-> 0]>>

\* "arguments.size() != 1 || options.at("help").active"
helpWanted(o) == o.arguments /= 1 \/ o.help

\* the help text is written and run() returns 0; no option is read
HelpReturn ==
    /\ pc = "begin"
    /\ helpWanted(options)
    /\ stdout' = Append(stdout, helpText)
    /\ status' = 0
    /\ pc' = "helped"
    /\ UNCHANGED <<sketch, threads, distanceMax, pValueMax, rounds, roundSize,
                   i, start, end, hashTable, j, inputCurrent, outputQueue,
                   thread, written, scored, ranges, cmp, options, searched,
                   popped, chunk>>

\* the options are read; a sketch file given with "-k" is refused
ReadOptions ==
    /\ pc = "begin"
    /\ ~helpWanted(options)
    /\ IF kmerOptionRefused(options)
       THEN pc' = "failed" /\ status' = 1
       ELSE pc' = "load" /\ status' = status
    /\ UNCHANGED <<sketch, threads, distanceMax, pValueMax, rounds, roundSize,
                   i, start, end, hashTable, j, inputCurrent, outputQueue,
                   thread, written, scored, ranges, cmp, options, stdout,
                   searched, popped, chunk>>

\* the reference is loaded; a sketch file of another capacity is refused
LoadReference ==
    /\ pc = "load"
    /\ IF sketchSizeRefused(options, sketch)
       THEN pc' = "failed" /\ status' = 1
       ELSE pc' = "header" /\ status' = status
    /\ UNCHANGED <<sketch, threads, distanceMax, pValueMax, rounds, roundSize,
                   i, start, end, hashTable, j, inputCurrent, outputQueue,
                   thread, written, scored, ranges, cmp, options, stdout,
                   searched, popped, chunk>>

\* the header of the table, if a table is asked for
WriteHeader ==
    /\ pc = "header"
    /\ stdout' = IF options.table THEN <<tableHeader(sketch)>> ELSE stdout
    /\ pc' = "start"
    /\ UNCHANGED <<sketch, threads, distanceMax, pValueMax, rounds, roundSize,
                   i, start, end, hashTable, j, inputCurrent, outputQueue,
                   thread, written, scored, ranges, cmp, options, status,
                   searched, popped, chunk>>

(***************************************************************************)
(* CommandPairwise::run, from the computation of the rounds on.            *)
(***************************************************************************)
\* rounds and roundSize
Partition ==
    /\ pc = "start"
    /\ rounds' = roundCount(referenceCount(sketch), sketch.minHashesPerWindow)
    /\ roundSize' = roundSizeOf(referenceCount(sketch), rounds')
    /\ i' = 0
    /\ pc' = "round"
    /\ UNCHANGED <<sketch, threads, distanceMax, pValueMax, start, end,
                   hashTable, j, inputCurrent, outputQueue, thread, written,
                   scored, ranges, cmp, options, stdout, status, searched,
                   popped, chunk>>

\* mutant: the submission loop of a round starts above the round's start
firstQueryAboveStart(roundStartIndex) == roundStartIndex + 1

\* the query indexes a round submits: "for ( uint64_t j = 1; j < end; j++ )"
firstQuery(roundStartIndex) == 1

\* mutant: the submission loop runs up to the end of the round included
submitMoreInclusive(query, roundEndIndex) == query <= roundEndIndex

submitMore(query, roundEndIndex) == query < roundEndIndex

\* mutant: the round submits its queries from the highest index down
inputIndexReversed(query, roundEndIndex) == roundEndIndex - query

\* the index given to "new PairwiseInput(sketch, j, ...)"
inputIndex(query, roundEndIndex) == query

\* head of the body of the for loop over the rounds: start, end, fillHashTable
RoundBegin ==
    /\ pc = "round"
    /\ i < rounds
    /\ start' = roundStart(i, roundSize)
    /\ end' = roundEnd(i, roundSize, referenceCount(sketch))
    /\ hashTable' = fillHashTable(sketch, hashTableSize, start', end')
    /\ ranges' = Append(ranges, [start |-> start', end |-> end'])
    /\ j' = firstQuery(start')
    /\ pc' = "submit"
    /\ UNCHANGED <<sketch, threads, distanceMax, pValueMax, rounds, roundSize,
                   i, inputCurrent, outputQueue, thread, written, scored, cmp,
                   options, stdout, status, searched, popped, chunk>>

\* the for loop over the rounds is over: return 0
RunReturn ==
    /\ pc = "round"
    /\ ~(i < rounds)
    /\ pc' = "done"
    /\ status' = 0
    /\ UNCHANGED <<sketch, threads, distanceMax, pValueMax, rounds, roundSize,
                   i, start, end, hashTable, j, inputCurrent, outputQueue,
                   thread, written, scored, ranges, cmp, options, stdout,
                   searched, popped, chunk>>

\* threadPool.runWhenThreadAvailable(new PairwiseInput(sketch, j, ...))
Submit ==
    /\ pc = "submit"
    /\ submitMore(j, end)
    /\ inputCurrent = None
    /\ inputCurrent' = [index |-> inputIndex(j, end), node |-> <<i, j>>, round |-> i,
                        maxDistance |-> distanceMax, maxPValue |-> pValueMax]
    /\ outputQueue' = Append(outputQueue,
                             [node |-> <<i, j>>, ready |-> FALSE, output |-> None])
    /\ pc' = "drain"
    /\ UNCHANGED <<sketch, threads, distanceMax, pValueMax, rounds, roundSize,
                   i, start, end, hashTable, j, thread, written, scored,
                   ranges, cmp, options, stdout, status, searched,
                   popped, chunk>>

\* the submission loop of the round is over
SubmitEnd ==
    /\ pc = "submit"
    /\ ~submitMore(j, end)
    /\ pc' = "final"
    /\ UNCHANGED <<sketch, threads, distanceMax, pValueMax, rounds, roundSize,
                   i, start, end, hashTable, j, inputCurrent, outputQueue,
                   thread, written, scored, ranges, cmp, options, stdout, status, searched,
                   popped, chunk>>

\* the call writeOutput(output, table) of run() on the output it holds:
\* writes it to cout and deletes it
writePopped ==
    /\ popped /= None
    /\ popped.output /= None
    /\ written' = Append(written, [round |-> i,
                                   index |-> popped.output.index,
                                   pairs |-> popped.output.pairs])
    /\ stdout' = stdout \o writeOutput(popped.output, options.table)
    /\ popped' = None

\* "while ( threadPool.outputAvailable() )" after a submission: the head is
\* ready, the body is entered
DrainAvailable ==
    /\ pc = "drain"
    /\ outputAvailable
    /\ pc' = "drainPop"
    /\ UNCHANGED <<sketch, threads, distanceMax, pValueMax, rounds, roundSize,
                   i, start, end, hashTable, j, inputCurrent, outputQueue,
                   thread, written, scored, ranges, cmp, options, stdout,
                   status, searched, popped, chunk>>

\* the body of the loop: popOutputWhenAvailable() returns the head
DrainPop ==
    /\ pc = "drainPop"
    /\ popOutputWhenAvailable
    /\ pc' = "drainWrite"
    /\ UNCHANGED <<sketch, threads, distanceMax, pValueMax, rounds, roundSize,
                   i, start, end, hashTable, j, inputCurrent, thread, written,
                   scored, ranges, cmp, options, stdout, status, searched,
                   chunk>>

\* the body of the loop: writeOutput on what was popped, then the guard again
DrainWrite ==
    /\ pc = "drainWrite"
    /\ writePopped
    /\ pc' = "drain"
    /\ UNCHANGED <<sketch, threads, distanceMax, pValueMax, rounds, roundSize,
                   i, start, end, hashTable, j, inputCurrent, outputQueue,
                   thread, scored, ranges, cmp, options, status, searched,
                   chunk>>

\* outputAvailable() is false: next j
DrainExit ==
    /\ pc = "drain"
    /\ ~outputAvailable
    /\ j' = j + 1
    /\ pc' = "submit"
    /\ UNCHANGED <<sketch, threads, distanceMax, pValueMax, rounds, roundSize,
                   i, start, end, hashTable, inputCurrent, outputQueue, thread,
                   written, scored, ranges, cmp, options, stdout, status, searched,
                   popped, chunk>>

\* mutant: the loop that ends a round stops as soon as no output is ready
roundDrainedNoOutput == ~outputAvailable

\* the guard of the loop that ends a round: "while ( threadPool.running() )"
roundDrained == ~running

\* "while ( threadPool.running() )": the queue is not empty, the body is
\* entered
FinalRunning ==
    /\ pc = "final"
    /\ ~roundDrained
    /\ pc' = "finalPop"
    /\ UNCHANGED <<sketch, threads, distanceMax, pValueMax, rounds, roundSize,
                   i, start, end, hashTable, j, inputCurrent, outputQueue,
                   thread, written, scored, ranges, cmp, options, stdout,
                   status, searched, popped, chunk>>

\* the body of the loop: popOutputWhenAvailable() waits for the head
FinalPop ==
    /\ pc = "finalPop"
    /\ popOutputWhenAvailable
    /\ pc' = "finalWrite"
    /\ UNCHANGED <<sketch, threads, distanceMax, pValueMax, rounds, roundSize,
                   i, start, end, hashTable, j, inputCurrent, thread, written,
                   scored, ranges, cmp, options, stdout, status, searched,
                   chunk>>

\* the body of the loop: writeOutput on what was popped, then the guard again
FinalWrite ==
    /\ pc = "finalWrite"
    /\ writePopped
    /\ pc' = "final"
    /\ UNCHANGED <<sketch, threads, distanceMax, pValueMax, rounds, roundSize,
                   i, start, end, hashTable, j, inputCurrent, outputQueue,
                   thread, scored, ranges, cmp, options, status, searched,
                   chunk>>

\* running() is false: the round is over, the hash table goes out of scope
FinalExit ==
    /\ pc = "final"
    /\ roundDrained
    /\ i' = i + 1
    /\ pc' = "round"
    /\ UNCHANGED <<sketch, threads, distanceMax, pValueMax, rounds, roundSize,
                   start, end, hashTable, j, inputCurrent, outputQueue, thread,
                   written, scored, ranges, cmp, options, stdout, status, searched,
                   popped, chunk>>

Next ==
    \/ HelpReturn
    \/ ReadOptions
    \/ LoadReference
    \/ WriteHeader
    \/ Partition
    \/ RoundBegin
    \/ RunReturn
    \/ Submit
    \/ SubmitEnd
    \/ DrainAvailable
    \/ DrainPop
    \/ DrainWrite
    \/ DrainExit
    \/ FinalRunning
    \/ FinalPop
    \/ FinalWrite
    \/ FinalExit
    \/ \E t \in DOMAIN thread : ThreadTake(t)
    \/ \E t \in DOMAIN thread : ThreadFinish(t)

Spec == Init /\ [][Next]_vars

(***************************************************************************)
(* A run under fair scheduling: run() is the main thread and takes its     *)
(* next step whenever it is not blocked; each thread of the pool, woken by *)
(* the pool's condition variables, takes an input that stays available and *)
(* returns from search.                                                    *)
(***************************************************************************)
RunStep ==
    \/ HelpReturn
    \/ ReadOptions
    \/ LoadReference
    \/ WriteHeader
    \/ Partition
    \/ RoundBegin
    \/ RunReturn
    \/ Submit
    \/ SubmitEnd
    \/ DrainAvailable
    \/ DrainPop
    \/ DrainWrite
    \/ DrainExit
    \/ FinalRunning
    \/ FinalPop
    \/ FinalWrite
    \/ FinalExit

\* thread t takes the input that waits
ThreadTakes(t) == t \in DOMAIN thread /\ ThreadTake(t)

\* thread t returns from search: what ThreadFinish(t), the one step that
\* frees a thread, does to the variable thread
ThreadReturns(t) ==
    /\ t \in DOMAIN thread
    /\ thread[t] /= None
    /\ thread' = [thread EXCEPT ![t] = None]

Fairness ==
    /\ WF_vars(RunStep)
    /\ \A t \in 1..MaxThreads : WF_vars(ThreadTakes(t))
    /\ \A t \in 1..MaxThreads : WF_thread(ThreadReturns(t))

\* the runs whose thresholds accept every pair that is not at distance 1
InitLive == Init /\ distanceMax = Micro /\ pValueMax = PScale

SpecLive == InitLive /\ [][Next]_vars /\ Fairness

(***************************************************************************)
(* A run in which search can fail: an exception (std::bad_alloc of "new",  *)
(* insert or push_back, or one thrown by a callee) leaves search, which    *)
(* has no handler, before it returns its output.                           *)
(***************************************************************************)
\* the exception leaves search after it has given the first n of its targets
\* to compareSketches (none when "new" fails at line 335 or the targets are
\* being collected), and then the function of the thread: either nothing
\* catches it and the process is terminated, or the pool goes on and the
\* node of the input becomes ready without an output
ThreadFail(t) ==
    /\ pc /= "crashed"
    /\ thread[t] /= None
    /\ LET in      == thread[t]
           targets == SetToSeq(searchTargets(sketch, in.index, hashTable))
       IN  \E n \in 0..Len(targets) :
             /\ scored' = scored \cup {<<in.index, targets[k]>> : k \in 1..n}
             /\ searched' = searched \cup
                  {[index   |-> in.index,
                    round   |-> in.round,
                    targets |-> SubSeq(targets, 1, n)]}
    /\ \/ /\ pc' = "crashed"
          /\ UNCHANGED <<outputQueue, thread>>
       \/ /\ outputQueue' =
                [n \in DOMAIN outputQueue |->
                   IF outputQueue[n].node = thread[t].node
                   THEN [outputQueue[n] EXCEPT !.ready = TRUE]
                   ELSE outputQueue[n]]
          /\ thread' = [thread EXCEPT ![t] = None]
          /\ pc' = pc
    /\ UNCHANGED <<sketch, threads, distanceMax, pValueMax, rounds, roundSize,
                   i, start, end, hashTable, j, inputCurrent, written,
                   ranges, cmp, options, stdout, status, popped, chunk>>

\* writeOutput of a node without output: "output->index" through a null
\* pointer
WriteNull ==
    /\ pc \in {"drainWrite", "finalWrite"}
    /\ popped /= None
    /\ popped.output = None
    /\ pc' = "crashed"
    /\ UNCHANGED <<sketch, threads, distanceMax, pValueMax, rounds, roundSize,
                   i, start, end, hashTable, j, inputCurrent, outputQueue,
                   thread, written, scored, ranges, cmp, options, stdout,
                   status, searched, popped, chunk>>

NextFail ==
    \/ Next
    \/ \E t \in DOMAIN thread : ThreadFail(t)
    \/ WriteNull

\* checked for the thresholds that accept every pair
SpecFail == InitLive /\ [][NextFail]_vars

(***************************************************************************)
(* A FastaChunk on its own: print() is public and nothing in run() calls   *)
(* it, so it is applied here to a chunk of any field values.               *)
(***************************************************************************)
chunkToken(label, value) == [t |-> label, a |-> value, b |-> 0]

\* FastaChunk::print(): the three fields, a line each
print(c) ==
    <<<<chunkToken("chunk start: ", c.start)>>,
      <<chunkToken("chunk end: ", c.end)>>,
      <<chunkToken("chunk nseqs: ", c.nseqs)>>>>

InitChunk ==
    /\ chunk \in [start : 0..MaxLen, end : 0..MaxLen, nseqs : 0..MaxLen]
    /\ sketch = None
    /\ threads = 0
    /\ distanceMax = 0
    /\ pValueMax = 0
    /\ options = None
    /\ stdout = <<>>
    /\ status = -1
    /\ searched = {}
    /\ popped = None
    /\ pc = "chunk"
    /\ rounds = 0
    /\ roundSize = 0
    /\ i = 0
    /\ start = 0
    /\ end = 0
    /\ hashTable = emptyHashTable
    /\ j = 0
    /\ inputCurrent = None
    /\ outputQueue = <<>>
    /\ thread = <<>>
    /\ written = <<>>
    /\ scored = {}
    /\ ranges = <<>>
    /\ cmp = None

\* one call of print() on the chunk
ShowChunk ==
    /\ pc = "chunk"
    /\ Len(stdout) < 3 * MaxCalls
    /\ stdout' = stdout \o print(chunk)
    /\ UNCHANGED <<sketch, threads, distanceMax, pValueMax, pc, rounds,
                   roundSize, i, start, end, hashTable, j, inputCurrent,
                   outputQueue, thread, written, scored, ranges, cmp, options,
                   status, searched, popped, chunk>>

NextChunk == ShowChunk

SpecChunk == InitChunk /\ [][NextChunk]_vars

(***************************************************************************)
(* The estimator on its own: compareSketches applied to two references.    *)
(***************************************************************************)
AscendingLists ==
    {s \in UNION {[1..n -> 1..MaxHash] : n \in 0..MaxLen} : IsAscending(s)}

CmpLengths == {2}
CmpKmerSpaces == {3}
CmpKmerSizes == {1, kmerDefault}
CmpDistances == {0, 50000, Micro}
CmpPValues == {10, PScale}

InitCompare ==
    /\ cmp \in [refRef      : [hashesSorted : AscendingLists, length : CmpLengths],
                refQry      : [hashesSorted : AscendingLists, length : CmpLengths],
                sketchSize  : 1..MaxSketchSize,
                kmerSize    : CmpKmerSizes,
                kmerSpace   : CmpKmerSpaces,
                maxDistance : CmpDistances,
                maxPValue   : CmpPValues,
                called      : {FALSE},
                out         : {None}]
    /\ sketch = None
    /\ threads = 0
    /\ distanceMax = 0
    /\ pValueMax = 0
    /\ options = None
    /\ stdout = <<>>
    /\ status = -1
    /\ searched = {}
    /\ popped = None
    /\ chunk = None
    /\ pc = "off"
    /\ rounds = 0
    /\ roundSize = 0
    /\ i = 0
    /\ start = 0
    /\ end = 0
    /\ hashTable = emptyHashTable
    /\ j = 0
    /\ inputCurrent = None
    /\ outputQueue = <<>>
    /\ thread = <<>>
    /\ written = <<>>
    /\ scored = {}
    /\ ranges = <<>>

\* one call of compareSketches
Compare ==
    /\ cmp /= None
    /\ ~cmp.called
    /\ cmp' = [cmp EXCEPT
                 !.called = TRUE,
                 !.out = compareSketches(cmp.refRef, cmp.refQry, cmp.sketchSize,
                                         cmp.kmerSize, cmp.kmerSpace,
                                         cmp.maxDistance, cmp.maxPValue)]
    /\ UNCHANGED <<sketch, threads, distanceMax, pValueMax, pc, rounds,
                   roundSize, i, start, end, hashTable, j, inputCurrent,
                   outputQueue, thread, written, scored, ranges, options,
                   stdout, status, searched, popped, chunk>>

NextCompare == Compare

SpecCompare == InitCompare /\ [][NextCompare]_vars

(***************************************************************************)
(* Properties of a run.                                                    *)
(***************************************************************************)
ShareHash(q, r) ==
    Range(sketch.refs[q].hashesSorted) \cap Range(sketch.refs[r].hashesSorted) /= {}

\* the accepted pairs written so far: (query, reference, common, denom)
WrittenPairs ==
    UNION {{<<written[a].index, written[a].pairs[p].index,
              written[a].pairs[p].numer, written[a].pairs[p].denom>> :
               p \in DOMAIN written[a].pairs} : a \in DOMAIN written}

\* the accepted pairs of the run computed one query after the other:
\* round by round, query by query, without a pool
SequentialPairs ==
    UNION {LET rs  == roundStart(k, roundSize)
               re  == roundEnd(k, roundSize, referenceCount(sketch))
               tab == fillHashTable(sketch, hashTableSize, rs, re)
           IN  UNION {LET out == search(sketch, q, tab, distanceMax, pValueMax)
                      IN  {<<q, out.pairs[p].index, out.pairs[p].numer,
                             out.pairs[p].denom>> : p \in DOMAIN out.pairs} :
                      q \in 1..(re - 1)} :
           k \in 0..(rounds - 1)}

\* C1: when the run is over, the rounds it went through partition [0, R):
\* there is at least one round, the first starts at 0, each starts where the
\* previous one ended, and the last ends at R.
C1_RoundsPartition ==
    pc = "done" =>
        /\ Len(ranges) >= 1
        /\ ranges[1].start = 0
        /\ \A k \in DOMAIN ranges : ranges[k].start <= ranges[k].end
        /\ \A k \in 1..(Len(ranges) - 1) : ranges[k + 1].start = ranges[k].end
        /\ ranges[Len(ranges)].end = referenceCount(sketch)

\* C2: when the run is over, every pair (q, r), r < q, whose sketches share a
\* hash value has been given to compareSketches in some round.
C2_NoPairMissed ==
    pc = "done" =>
        \A q \in DOMAIN sketch.refs : \A r \in DOMAIN sketch.refs :
            (r < q /\ ShareHash(q, r)) => <<q, r>> \in scored

\* C3: every pair written has its reference index below its query index, and
\* no pair is written twice over the whole run.
C3_LowerTriangleOnce ==
    \A a \in DOMAIN written : \A p \in DOMAIN written[a].pairs :
        /\ written[a].pairs[p].index < written[a].index
        /\ \A b \in DOMAIN written : \A p2 \in DOMAIN written[b].pairs :
              (/\ written[b].index = written[a].index
               /\ written[b].pairs[p2].index = written[a].pairs[p].index)
              => (a = b /\ p = p2)

\* reached: a run of several rounds is over, pairs have been written in two
\* different rounds, and a query with a pair was processed again by a later
\* round
C3_Witness ==
    /\ pc = "done"
    /\ \E a \in DOMAIN written : \E b \in DOMAIN written :
          /\ written[a].round < written[b].round
          /\ written[a].index = written[b].index
          /\ written[a].pairs /= <<>>
    /\ \E a \in DOMAIN written : \E b \in DOMAIN written :
          /\ written[a].round < written[b].round
          /\ written[a].pairs /= <<>>
          /\ written[b].pairs /= <<>>

\* C4: within a round the outputs are written in submission order: the n-th
\* output written in a round is the one of the n-th query submitted in it,
\* whatever the order in which the threads finish.
C4_RoundWrittenInOrder ==
    \A a \in DOMAIN written :
        written[a].index =
            1 + Cardinality({b \in 1..(a - 1) :
                                         written[b].round = written[a].round})

\* reached: a later query of the round is ready while the head of the queue
\* is not, with outputs of this round already written
C4_Witness ==
    /\ Len(outputQueue) >= 2
    /\ ~outputQueue[1].ready
    /\ outputQueue[2].ready
    /\ \E a \in DOMAIN written : written[a].round = i

\* C5 as stated: over the whole run the query index written never decreases.
C5_NeverDecreases ==
    \A a \in 1..(Len(written) - 1) : written[a].index <= written[a + 1].index

\* C5 (amended): the query index written increases from one output to the
\* next inside a round; at a round boundary it restarts from the first query
\* of the next round.
C5_AscendingPerRound ==
    \A a \in 1..(Len(written) - 1) :
        IF written[a].round = written[a + 1].round
        THEN written[a].index < written[a + 1].index
        ELSE /\ written[a].round < written[a + 1].round
             /\ written[a + 1].index = 1

\* reached: the query index written goes down across a round boundary
C5_Witness ==
    \E a \in 1..(Len(written) - 1) :
        /\ written[a].round < written[a + 1].round
        /\ written[a].index > written[a + 1].index

\* C6: when the run is over, the set of accepted pairs written is the one
\* computed query after query without a pool, for every number of threads
\* and every schedule of the threads.
C6_SameAcceptedPairs ==
    pc = "done" => WrittenPairs = SequentialPairs

\* reached: a run with several threads is over and has accepted pairs
C6_Witness ==
    /\ pc = "done"
    /\ threads > 1
    /\ rounds > 1
    /\ Cardinality(WrittenPairs) >= 2

(***************************************************************************)
(* Properties of the estimator.                                            *)
(***************************************************************************)
CmpRefSet == Range(cmp.refRef.hashesSorted)
CmpQrySet == Range(cmp.refQry.hashesSorted)
CmpShared == CmpRefSet \cap CmpQrySet
CmpUnion == CmpRefSet \cup CmpQrySet
CmpCalled == cmp /= None /\ cmp.called

\* C7: an accepted pair has 0 <= common <= denom <= sketchSize.
C7_CountsBounded ==
    (CmpCalled /\ cmp.out.accepted) =>
        /\ 0 <= cmp.out.numer
        /\ cmp.out.numer <= cmp.out.denom
        /\ cmp.out.denom <= cmp.sketchSize

\* reached: an accepted pair whose merge used up one list before sketchSize
\* steps, and whose union is larger than sketchSize (the clamp has acted)
C7_Witness ==
    /\ CmpCalled
    /\ cmp.out.accepted
    /\ cmp.out.numer > 0
    /\ cmp.out.denom = cmp.sketchSize
    /\ Cardinality(CmpUnion) > cmp.sketchSize
    /\ mergeLoop(cmp.refRef.hashesSorted, cmp.refQry.hashesSorted,
                 cmp.sketchSize, 0, 0, 0, 0).denom < cmp.sketchSize

\* C8: for identical hash lists common = denom and the distance is the 0 of
\* the first branch.
C8_IdenticalIsZero ==
    (CmpCalled /\ cmp.refRef.hashesSorted = cmp.refQry.hashesSorted) =>
        /\ cmp.out.numer = cmp.out.denom
        /\ cmp.out.branch = "zero"
        /\ cmp.out.distance = 0

\* reached: the scenario [1,2,3,4] against [1,2,3,4] with capacity 4
C8_Witness ==
    /\ CmpCalled
    /\ cmp.refRef.hashesSorted = <<1, 2, 3, 4>>
    /\ cmp.refQry.hashesSorted = <<1, 2, 3, 4>>
    /\ cmp.sketchSize = 4
    /\ cmp.out.numer = 4
    /\ cmp.out.denom = 4
    /\ cmp.out.distance = 0

\* C9: for disjoint hash lists with at least sketchSize values together
\* common = 0, denom = sketchSize, the distance is the 1 of the second branch
\* and the pair is rejected whatever maxDistance is.
C9_DisjointIsRejected ==
    (/\ CmpCalled
     /\ CmpShared = {}
     /\ Len(cmp.refRef.hashesSorted) + Len(cmp.refQry.hashesSorted)
            >= cmp.sketchSize) =>
        /\ cmp.out.numer = 0
        /\ cmp.out.denom = cmp.sketchSize
        /\ cmp.out.branch = "one"
        /\ cmp.out.distance = Micro
        /\ ~cmp.out.accepted

\* reached: disjoint lists with more than sketchSize values together are
\* rejected with maxDistance = 1.0 and maxPValue = 1.0
C9_Witness ==
    /\ CmpCalled
    /\ cmp.refRef.hashesSorted = <<1, 2, 3>>
    /\ cmp.refQry.hashesSorted = <<4, 5>>
    /\ cmp.sketchSize = 4
    /\ cmp.maxDistance = Micro
    /\ cmp.maxPValue = PScale
    /\ cmp.out.denom = 4
    /\ ~cmp.out.accepted

\* two lists of 4 hashes sharing 3, compared with capacity 4
ThreeOfFour ==
    /\ CmpCalled
    /\ cmp.sketchSize = 4
    /\ Len(cmp.refRef.hashesSorted) = 4
    /\ Len(cmp.refQry.hashesSorted) = 4
    /\ Cardinality(CmpShared) = 3

\* C10 as stated: 3 of 4 shared with capacity 4 gives common = 3, denom = 4
\* and the log branch, wherever the non-shared values fall.
C10_ThreeOfFourAnywhere ==
    ThreeOfFour =>
        /\ cmp.out.numer = 3
        /\ cmp.out.denom = 4
        /\ cmp.out.branch = "log"

\* C10 (amended): 3 of 4 shared with capacity 4 gives denom = 4 and the log
\* branch; common = 3 when the largest value of the union is not shared and
\* common = 2 when it is shared.
C10_ThreeOfFourByMax ==
    ThreeOfFour =>
        /\ cmp.out.denom = 4
        /\ cmp.out.branch = "log"
        /\ cmp.out.numer =
              (IF (CHOOSE m \in CmpUnion : \A x \in CmpUnion : x <= m) \in CmpShared
               THEN 2 ELSE 3)
        /\ cmp.out.distance = logDistance(cmp.out.numer, 4, cmp.kmerSize)

\* reached: 3 of 4 shared with k = 9, the non-shared value of the first list
\* being its smallest, gives common = 3 and denom = 4
C10_Witness ==
    /\ ThreeOfFour
    /\ cmp.kmerSize = 9
    /\ cmp.refRef.hashesSorted[1] \notin CmpShared
    /\ cmp.out.numer = 3
    /\ cmp.out.denom = 4
    /\ cmp.out.branch = "log"

(***************************************************************************)
(* Acceptance of the scored pairs.                                         *)
(***************************************************************************)
\* the hash table of round k of the run, rebuilt from the range it covered
RoundTable(k) ==
    fillHashTable(sketch, hashTableSize, ranges[k + 1].start, ranges[k + 1].end)

\* the references that search gave to compareSketches for the output written
\* as a-th
Candidates(a) ==
    UNION {Range(c.targets) :
           c \in {x \in searched : /\ x.index = written[a].index
                                  /\ x.round = written[a].round}}

WithinThresholds(c) ==
    /\ c.distance <= distanceMax
    /\ c.distance /= Micro
    /\ c.pValue.num * PScale <= pValueMax * c.pValue.den

\* C11: a pair that was scored is among the pairs written for its query if
\* and only if its distance is at most the distance threshold, its distance
\* is not 1, and its p-value is at most the p-value threshold.
C11_WrittenIffWithinThresholds ==
    \A a \in DOMAIN written : \A r \in Candidates(a) :
        (\E p \in DOMAIN written[a].pairs : written[a].pairs[p].index = r)
        <=> WithinThresholds(scorePair(sketch, written[a].index, r,
                                       distanceMax, pValueMax))

\* reached: the output written for a query keeps one scored pair and drops
\* another whose distance passes and whose p-value does not
C11_Witness ==
    \E a \in DOMAIN written :
        /\ written[a].pairs /= <<>>
        /\ \E r \in Candidates(a) :
              LET c == scorePair(sketch, written[a].index, r,
                                 distanceMax, pValueMax)
              IN  /\ c.distance <= distanceMax
                  /\ c.distance /= Micro
                  /\ c.pValue.num * PScale > pValueMax * c.pValue.den
                  /\ \A p \in DOMAIN written[a].pairs :
                        written[a].pairs[p].index /= r

(***************************************************************************)
(* The table written to cout.                                              *)
(***************************************************************************)
\* the positions of the tabs of a line, ascending
TabPositions(line) == SetToSeq({p \in DOMAIN line : line[p] = Tab})

\* the k-th tab-separated cell of a line, cells counted from 1; a line that
\* ends before its k-th cell has a blank one there
Cell(line, k) ==
    LET pos == TabPositions(line)
        lo  == IF k = 1 THEN 0 ELSE pos[k - 1]
        hi  == IF k > Len(pos) THEN Len(line) + 1 ELSE pos[k]
    IN  IF k > Len(pos) + 1 THEN <<>> ELSE SubSeq(line, lo + 1, hi - 1)

CellCount(line) == Len(TabPositions(line)) + 1

\* C12: with table output, the row written for query q starts with the name
\* of q, and the cell under the header column of a reference r holds the
\* distance of the accepted pair (q, r) and is blank if there is no such pair;
\* the row has no cell beyond the columns of the header.
C12_TableRowAligned ==
    options.table =>
        \A a \in DOMAIN written :
            LET row   == stdout[a + 1]
                pairs == written[a].pairs
            IN  /\ Cell(row, 1) = <<nameToken(written[a].index)>>
                /\ CellCount(row) <= CellCount(stdout[1])
                /\ \A r \in DOMAIN sketch.refs :
                      /\ Cell(stdout[1], r + 2) = <<nameToken(r)>>
                      /\ Cell(row, r + 2) =
                            IF \E p \in DOMAIN pairs : pairs[p].index = r
                            THEN LET p == CHOOSE x \in DOMAIN pairs :
                                              pairs[x].index = r
                                 IN  <<distanceToken(pairs[p].distance)>>
                            ELSE <<>>

(***************************************************************************)
(* Options that run() refuses.                                             *)
(***************************************************************************)
\* the run gets past the help text (line 54) and its options ask for what
\* the claim calls a configuration error
Misconfigured ==
    /\ ~helpWanted(options)
    /\ \/ options.isSketch /\ options.kmerActive
       \/ /\ options.isSketch
          /\ options.sketchSizeActive
          /\ options.reads
          /\ options.sketchSize /= sketch.minHashesPerWindow

\* C13: when the k-mer size is given with a sketch file, or a capacity that
\* differs from the sketch file's is given for reads, run() returns 1 and up
\* to then no hash table was built, no input was handed to the pool and
\* nothing, the header of the table included, was written to cout.
C13_RefusedBeforeAnyWork ==
    Misconfigured =>
        /\ pc \in {"begin", "load", "failed"}
        /\ (pc = "failed") <=> (status = 1)
        /\ status \in {-1, 1}
        /\ stdout = <<>>
        /\ ranges = <<>>
        /\ hashTable = emptyHashTable
        /\ inputCurrent = None
        /\ outputQueue = <<>>
        /\ \A t \in DOMAIN thread : thread[t] = None
        /\ written = <<>>
        /\ searched = {}

\* reached: run() has returned 1 for a sketch file of another capacity, after
\* the file was loaded, with a table asked for
C13_Witness ==
    /\ pc = "failed"
    /\ status = 1
    /\ options.table
    /\ ~options.kmerActive
    /\ options.sketchSizeActive /\ options.reads
    /\ options.sketchSize /= sketch.minHashesPerWindow

(***************************************************************************)
(* A search that fails.                                                    *)
(***************************************************************************)
\* C14: when search cannot complete for a query, the run does not crash, the
\* node of the query becomes ready with an output (an empty list of pairs),
\* and a run that has returned has written an output for every query it
\* submitted.
C14_FailedSearchCompletesEmpty ==
    /\ pc /= "crashed"
    /\ \A n \in DOMAIN outputQueue :
          outputQueue[n].ready => outputQueue[n].output /= None
    /\ popped /= None => popped.output /= None
    /\ pc = "done" =>
          \A k \in DOMAIN ranges : \A q \in 1..(ranges[k].end - 1) :
              \E a \in DOMAIN written :
                  written[a].round = k - 1 /\ written[a].index = q

(***************************************************************************)
(* Rounds and the inputs in flight.                                        *)
(***************************************************************************)
\* the rounds of the inputs that were submitted and are not yet written:
\* waiting for a thread, with a thread, in the output queue, or popped by
\* run() and about to be written
InFlightRounds ==
    {outputQueue[n].node[1] : n \in DOMAIN outputQueue}
    \cup (IF popped /= None THEN {popped.node[1]} ELSE {})
    \cup {thread[t].round : t \in {u \in DOMAIN thread : thread[u] /= None}}
    \cup (IF inputCurrent /= None THEN {inputCurrent.round} ELSE {})

\* every query of round k has had its output written
RoundWritten(k) ==
    \A q \in 1..(ranges[k + 1].end - 1) :
        \E a \in DOMAIN written : written[a].round = k /\ written[a].index = q

\* C15: rounds do not overlap. Whenever an input is in flight it belongs to
\* the current round, whose hash table is the one fillHashTable built for
\* the round's range before the first submission and is still unchanged; and
\* when the run is between rounds nothing is in flight and every query of
\* the rounds before has been written.
C15_RoundsDoNotOverlap ==
    /\ InFlightRounds /= {} =>
          /\ InFlightRounds = {i}
          /\ pc \in {"submit", "drain", "drainPop", "drainWrite",
                    "final", "finalPop", "finalWrite"}
          /\ Len(ranges) = i + 1
          /\ hashTable = RoundTable(i)
    /\ pc \in {"round", "done"} => InFlightRounds = {}
    /\ \A k \in 0..(Len(ranges) - 1) :
          (k < i \/ pc \in {"round", "done"}) => RoundWritten(k)

\* reached: in a later round, with outputs of the round before written, a
\* thread is at work and two outputs are awaited after the last submission
C15_Witness ==
    /\ i >= 1
    /\ pc = "final"
    /\ \E t \in DOMAIN thread : thread[t] /= None
    /\ Len(outputQueue) >= 2
    /\ \E a \in DOMAIN written : written[a].round = i - 1

(***************************************************************************)
(* The life of an input.                                                   *)
(***************************************************************************)
\* an input is named by its round and the j of its submission: the inputs
\* that the rounds begun so far submit
Nodes ==
    {n \in (0..(Len(ranges) - 1)) \X (1..MaxRefs) : n[2] < ranges[n[1] + 1].end}

Queued(n) == inputCurrent /= None /\ inputCurrent.node = n

Workers(n) == {t \in DOMAIN thread : thread[t] /= None /\ thread[t].node = n}

Completed(n) ==
    \E k \in DOMAIN outputQueue : outputQueue[k].node = n /\ outputQueue[k].ready

\* popOutputWhenAvailable has returned the output of the input to run()
Drained(n) == popped /= None /\ popped.node = n

\* the outputs of the input passed to writeOutput, which writes and deletes
Writes(n) ==
    {a \in DOMAIN written : written[a].round = n[1] /\ written[a].index = n[2]}

\* 0 not submitted, 1 queued, 2 running, 3 completed, 4 drained, 5 destroyed
Rank(n) ==
    IF Writes(n) /= {} THEN 5
    ELSE IF Drained(n) THEN 4
    ELSE IF Completed(n) THEN 3
    ELSE IF Workers(n) /= {} THEN 2
    ELSE IF Queued(n) THEN 1
    ELSE 0

\* an input is in one place at a time, with one thread at most, has a node in
\* the output queue from its submission to its writing, and is written once
OnePlace(n) ==
    /\ Cardinality(Workers(n)) <= 1
    /\ Cardinality(Writes(n)) <= 1
    /\ Cardinality(Workers(n)) + Cardinality(Writes(n))
         + (IF Queued(n) THEN 1 ELSE 0) + (IF Completed(n) THEN 1 ELSE 0)
         + (IF Drained(n) THEN 1 ELSE 0) <= 1
    /\ Cardinality({k \in DOMAIN outputQueue : outputQueue[k].node = n})
         = (IF Rank(n) \in {1, 2, 3} THEN 1 ELSE 0)

\* a step leaves an input where it is or moves it to the next stage
NextStage(n) ==
    LET before == Rank(n)
        after  == Rank(n)'
    IN  after = before \/ after = before + 1

Outstanding == {n \in Nodes : Rank(n) \in {1, 2, 3, 4}}

\* run() has returned and no input is outstanding
Terminated == pc \in {"done", "failed", "helped"} /\ Outstanding = {}

\* C16: an input goes from queued to running, completed, drained (popped by
\* run()) and destroyed (written by writeOutput, which deletes it) in that
\* order, one stage at a time, is with one thread at most, and is written once; under
\* fair scheduling run() returns with no input outstanding, every input it
\* submitted having been written.
C16_LifecycleAndTermination ==
    /\ [](\A n \in Nodes : OnePlace(n))
    /\ [][\A n \in Nodes : NextStage(n)]_vars
    /\ [](pc = "done" => \A k \in 0..(Len(ranges) - 1) : RoundWritten(k))
    /\ <>[]Terminated

\* reached: run() has returned 0 after several rounds and at least three
\* inputs, all written
C16_Witness ==
    /\ pc = "done"
    /\ Len(ranges) >= 2
    /\ Cardinality({n \in Nodes : Rank(n) = 5}) >= 3
    /\ Outstanding = {}

(***************************************************************************)
(* The inputs submitted and not yet written.                               *)
(***************************************************************************)
\* the nodes of the output queue whose search has not returned: their input
\* waits for a thread or is with one
Unfinished == {k \in DOMAIN outputQueue : ~outputQueue[k].ready}

\* C17 as stated: the inputs submitted and not yet written (waiting, running,
\* or ready in the output queue) number at most the threads of the pool plus
\* one.
C17_OutstandingWithinThreads == Len(outputQueue) <= threads + 1

\* C17 (amended): the inputs submitted whose search has not returned number
\* at most the threads of the pool plus one; the inputs submitted and not yet
\* written number at most the queries of the round, end - 1.
C17_UnfinishedWithinThreads ==
    /\ Cardinality(Unfinished) <= threads + 1
    /\ Len(outputQueue) <= (IF end >= 1 THEN end - 1 ELSE 0)

\* reached: with several threads, every query of the round is in the output
\* queue, more than threads + 1 of them; the oldest is the only one whose
\* search has not returned
C17_Witness ==
    /\ threads >= 2
    /\ Len(outputQueue) > threads + 1
    /\ Len(outputQueue) = end - 1
    /\ Unfinished = {1}

(***************************************************************************)
(* The hash table of a round.                                              *)
(***************************************************************************)
\* the hash values of the references of the run and the keys of the table
HashValues ==
    DOMAIN hashTable.map
    \cup UNION {Range(sketch.refs[x].hashesSorted) : x \in DOMAIN sketch.refs}

Occurrences(list, x) == Cardinality({k \in DOMAIN list : list[k] = x})

\* C18: once fillHashTable has returned for the round [start, end), its
\* statistics pass included, the list of a hash value h holds a reference
\* index x if and only if start <= x < end and h is a hash of x, holds it
\* once, and is in ascending order.
C18_TableHoldsRound ==
    ranges /= <<>> =>
        /\ hashTable.slots = hashTableSize
        /\ \A h \in HashValues :
              LET list == hashTableAt(hashTable, h)
              IN  /\ \A k \in 1..(Len(list) - 1) : list[k] < list[k + 1]
                  /\ Range(list) \subseteq DOMAIN sketch.refs
                  /\ \A x \in DOMAIN sketch.refs :
                        Occurrences(list, x) =
                            IF /\ start <= x
                               /\ x < end
                               /\ h \in Range(sketch.refs[x].hashesSorted)
                            THEN 1 ELSE 0

\* reached: the table of a later round has a hash value with two references
\* of the round in its list, a hash that a reference before the round has too
C18_Witness ==
    /\ ranges /= <<>>
    /\ start > 0
    /\ \E h \in HashValues :
          /\ Len(hashTableAt(hashTable, h)) >= 2
          /\ \E x \in 0..(start - 1) : h \in Range(sketch.refs[x].hashesSorted)

(***************************************************************************)
(* The references search scores for a query.                               *)
(***************************************************************************)
\* the references of round k below query q that share a hash value with it
SharingBelow(q, k) ==
    {r \in DOMAIN sketch.refs :
        /\ ranges[k + 1].start <= r
        /\ r < ranges[k + 1].end
        /\ r < q
        /\ ShareHash(q, r)}

\* C19: a call of search for query q in a round scores exactly the references
\* of the round that are below q and share a hash value with q, each of them
\* once and in ascending order, and the pairs of an output written are in
\* strictly ascending order of their reference.
C19_ScoresSharingBelow ==
    /\ \A c \in searched :
          /\ Range(c.targets) = SharingBelow(c.index, c.round)
          /\ \A x \in 1..(Len(c.targets) - 1) : c.targets[x] < c.targets[x + 1]
    /\ \A a \in DOMAIN written : \A p \in 1..(Len(written[a].pairs) - 1) :
          written[a].pairs[p].index < written[a].pairs[p + 1].index

\* reached: in a later round a call of search has scored a reference and left
\* out one of the round that is below the query and shares no hash with it,
\* and one before the round that shares a hash with it
C19_Witness ==
    \E c \in searched :
        /\ c.round >= 1
        /\ c.targets /= <<>>
        /\ \E r \in ranges[c.round + 1].start..(c.index - 1) :
              r < ranges[c.round + 1].end /\ ~ShareHash(c.index, r)
        /\ \E r \in 0..(ranges[c.round + 1].start - 1) :
              r < c.index /\ ShareHash(c.index, r)

(***************************************************************************)
(* What the bounded merge computes.                                        *)
(***************************************************************************)
\* the sketchSize smallest values of the union of the two lists
CmpSmallest ==
    {u \in CmpUnion : Cardinality({v \in CmpUnion : v < u}) < cmp.sketchSize}

\* the same call with the two references exchanged
CmpSwapped ==
    compareSketches(cmp.refQry, cmp.refRef, cmp.sketchSize, cmp.kmerSize,
                    cmp.kmerSpace, cmp.maxDistance, cmp.maxPValue)

\* C20: for two strictly ascending lists and sketchSize >= 1 the merge ends
\* with denom = min(sketchSize, |A \cup B|) and common = the number of values
\* of A \cap B among the sketchSize smallest values of A \cup B; the call with
\* the lists exchanged gives the same common and denom.
C20_MergeCountsSmallest ==
    CmpCalled =>
        /\ cmp.out.denom =
              (IF Cardinality(CmpUnion) < cmp.sketchSize
               THEN Cardinality(CmpUnion) ELSE cmp.sketchSize)
        /\ cmp.out.numer = Cardinality(CmpShared \cap CmpSmallest)
        /\ CmpSwapped.numer = cmp.out.numer
        /\ CmpSwapped.denom = cmp.out.denom

\* reached: lists of different lengths whose union is larger than sketchSize,
\* with one shared value counted and another beyond the sketchSize smallest
C20_Witness ==
    /\ CmpCalled
    /\ Len(cmp.refRef.hashesSorted) < Len(cmp.refQry.hashesSorted)
    /\ Cardinality(CmpUnion) > cmp.sketchSize
    /\ cmp.out.numer >= 1
    /\ cmp.out.numer < Cardinality(CmpShared)

====
